---- MODULE Spec2Model ----
(***************************************************************************)
(* State-machine model of the analysis pipeline of src/src/App.tsx: the    *)
(* React state of App, the in-flight invocations of analyzeWebsite and     *)
(* loadHistory, the websiteAnalyses table and the wall clock.              *)
(*                                                                         *)
(* Strings typed into the url field are sequences of tokens: the two       *)
(* scheme prefixes, a blank, and a host label.  Objects (reports, payloads *)
(* of generateObject, table rows) are functions from key names to values;  *)
(* a key that is absent from the object is absent from the domain.         *)
(***************************************************************************)
EXTENDS Integers, Sequences, FiniteSets, TLC

\* ---------------------------------------------------------------- bounds
MaxUrlLen == 2
MaxStore == 1
MaxClock == 1
MaxRuns == 2
MaxPending == 1
MaxRows == 3

\* ------------------------------------------------------------- constants
ListLimit == 10

VARIABLES
    user,         \* useState(null): Null or [id |-> u]
    loading,      \* useState(true)
    url,          \* useState(''): the text of the input field
    analyzing,    \* useState(false)
    progress,     \* useState(0)
    currentStep,  \* useState('')
    result,       \* useState(null): Null or a report object
    history,      \* useState([]): sequence of report objects
    runs,         \* invocations of analyzeWebsite, by slot
    pending,      \* loadHistory calls started by the effect, per user, awaiting list
    store,        \* rows of websiteAnalyses, in order of creation
    now,          \* Date.now()
    toasts,       \* toast notices of the last handler or continuation
    console,      \* console.error entries of the last handler or continuation
    download      \* files offered for download by the last handler or continuation

vars == <<user, loading, url, analyzing, progress, currentStep, result, history,
          runs, pending, store, now, toasts, console,
          download>>

\* ------------------------------------------------------------ vocabulary
Null == [null |-> TRUE]

HTTP == "http://"
HTTPS == "https://"
SP == " "
HOST == "a"

Tokens == {HTTP, HTTPS, SP, HOST}

Users == {"u1"}

Categories == {"performance", "seo", "accessibility", "design", "ux"}

ScoreColumn ==
    [performance |-> "performanceScore", seo |-> "seoScore",
     accessibility |-> "accessibilityScore", design |-> "designScore",
     ux |-> "uxScore"]

StepScrape == "Analyzing website content..."
StepScreenshot == "Capturing website screenshot..."
StepGenerate == "Running AI analysis..."
StepSave == "Saving analysis results..."
StepComplete == "Analysis complete!"
StepNone == ""

ToastInvalid == "Please enter a valid URL"
ToastFailed == "Analysis failed. Please try again."
ToastCompleted == "Website analysis completed!"
ToastHistory == "Failed to load analysis history"

RunIds == 1..MaxRuns

\* All strings of at most n tokens.
RECURSIVE Strings(_)
Strings(n) ==
    IF n = 0 THEN {<<>>}
    ELSE LET shorter == Strings(n - 1)
         IN shorter \cup {Append(s, t) : s \in {x \in shorter : Len(x) = n - 1}, t \in Tokens}

Inputs == Strings(MaxUrlLen)

\* ------------------------------------------------------- string functions
\* String.prototype.trim
RECURSIVE TrimStart(_)
TrimStart(s) ==
    IF s # <<>> /\ Head(s) = SP THEN TrimStart(Tail(s)) ELSE s

RECURSIVE TrimEnd(_)
TrimEnd(s) ==
    IF s # <<>> /\ s[Len(s)] = SP THEN TrimEnd(SubSeq(s, 1, Len(s) - 1)) ELSE s

Trim(s) == TrimEnd(TrimStart(s))

\* String.prototype.startsWith, for a prefix that is one token
StartsWith(s, prefix) == s # <<>> /\ Head(s) = prefix

\* new URL(v) for v without a base: the parser strips leading and trailing
\* blanks, requires a scheme, and for http/https requires a non-empty host
\* free of forbidden host code points (a blank is one).  A scheme token after
\* the first one reads as the host letters "http(s)", an empty port, and the
\* path "//": it ends the host, and whatever follows it is path.
HostEnd(rest) ==
    IF \E i \in 1..Len(rest) : rest[i] \in {HTTP, HTTPS}
    THEN CHOOSE i \in 1..Len(rest) :
            /\ rest[i] \in {HTTP, HTTPS}
            /\ \A j \in 1..(i - 1) : rest[j] \notin {HTTP, HTTPS}
    ELSE Len(rest)

UrlParses(v) ==
    LET s == Trim(v)
    IN /\ s # <<>>
       /\ Head(s) \in {HTTP, HTTPS}
       /\ LET rest == Tail(s)
          IN /\ rest # <<>>
             /\ \A i \in 1..HostEnd(rest) : rest[i] # SP

\* ---------------------------------------------------------------- objects
\* The error that the call `call` throws.
Thrown(call) == [thrownBy |-> call]

TypeError == Thrown("TypeError")

\* An optional value: <<>> is undefined, <<v>> is the value v.
Get(o, k) == IF k \in DOMAIN o THEN <<o[k]>> ELSE <<>>

Drop(o, k) == [x \in DOMAIN o \ {k} |-> o[x]]

\* Mutant of Stringify: only the keys id, url and timestamp are written.
StringifyShallow(o) ==
    [wellFormed |-> TRUE,
     text |-> [k \in DOMAIN o \cap {"id", "url", "timestamp"} |-> o[k]]]

\* JSON.stringify of an object all of whose values came out of JSON: every key
\* and value is written, and the text is well formed.
Stringify(o) == [wellFormed |-> TRUE, text |-> o]

\* JSON.parse: <<value>> of a well-formed text, <<>> when it throws.
Parse(blob) == IF blob.wellFormed THEN <<blob.text>> ELSE <<>>

\* ----------------------------------------------- what generateObject returns
ConformingScore ==
    [performance |-> 90, seo |-> 80, accessibility |-> 70, design |-> 60, ux |-> 50]

Conforming ==
    [c \in Categories |->
        [score |-> ConformingScore[c], detail |-> <<1>>, recommendations |-> <<"r">>]]

OutOfRange == {-5, 150}

PayloadId == [prefix |-> "payload_", n |-> 0]
PayloadUrl == <<HTTP, "b">>
PayloadTimestamp == MaxClock + 7

Payloads ==
    {Conforming}
    \cup {Drop(Conforming, c) : c \in Categories}
    \cup {[Conforming EXCEPT ![c] = Drop(@, "score")] : c \in Categories}
    \cup {[Conforming EXCEPT ![c] = Drop(@, "recommendations")] : c \in Categories}
    \cup {[Conforming EXCEPT ![c].score = v] : c \in Categories, v \in OutOfRange}
    \cup {Conforming @@ [id |-> PayloadId],
          Conforming @@ [url |-> PayloadUrl],
          Conforming @@ [timestamp |-> PayloadTimestamp]}

\* ------------------------------------------------------- analyzeWebsite
\* Mutant of ValidUrlOf: only the https:// prefix is recognized.
ValidUrlOfHttpsOnly(u) ==
    IF ~StartsWith(u, HTTPS) THEN <<HTTPS>> \o u ELSE u

\* The candidate URL of lines 159-163.
ValidUrlOf(u) ==
    IF ~StartsWith(u, HTTP) /\ ~StartsWith(u, HTTPS) THEN <<HTTPS>> \o u ELSE u

\* Mutant of Rejects: the candidate is not parsed.
RejectsBlankOnly(u) == Trim(u) = <<>>

\* Lines 153-168: whether the invocation returns with the invalid-URL notice.
Rejects(u) == Trim(u) = <<>> \/ ~UrlParses(ValidUrlOf(u))

MakeId(t) == [prefix |-> "analysis_", n |-> t]

\* The object literal of lines 315-320: the spread of the payload comes last.
Assemble(analysis, validUrl, t) ==
    analysis @@ [id |-> MakeId(t), url |-> validUrl, timestamp |-> t]

\* Evaluating the argument of create (lines 323-335) reads x.score of each
\* category x: a TypeError when the category is absent.
ArgumentThrows(report) == \E c \in Categories : c \notin DOMAIN report

Row(report, u, t) ==
    [id |-> report.id,
     userId |-> u.id,
     url |-> report.url,
     timestamp |-> report.timestamp,
     performanceScore |-> Get(report.performance, "score"),
     seoScore |-> Get(report.seo, "score"),
     accessibilityScore |-> Get(report.accessibility, "score"),
     designScore |-> Get(report.design, "score"),
     uxScore |-> Get(report.ux, "score"),
     analysisData |-> Stringify(report),
     createdAt |-> t]

\* -------------------------------------------------------------- loadHistory
\* websiteAnalyses.list of lines 99-103: the rows of the user, newest first,
\* rows of equal createdAt in either order, at most ListLimit of them.
Listings(u) ==
    LET mine == {i \in 1..Len(store) : store[i].userId = u.id}
        n == Cardinality(mine)
        orders == {o \in [1..n -> mine] :
                      /\ \A i, j \in 1..n : i # j => o[i] # o[j]
                      /\ \A i, j \in 1..n :
                            i < j => store[o[i]].createdAt >= store[o[j]].createdAt}
        m == IF n < ListLimit THEN n ELSE ListLimit
    IN {[i \in 1..m |-> store[o[i]]] : o \in orders}

\* Mutant of EmptyCategory: the score column is not read.
EmptyCategoryZero(score) ==
    [score |-> 0, detail |-> <<>>, recommendations |-> <<>>]

\* A category of the fallback structure of lines 119-127: the score column,
\* or 0 when it is not set, with zeroed details and no recommendations.
EmptyCategory(score) ==
    [score |-> IF score = <<>> THEN 0 ELSE score[1],
     detail |-> <<>>, recommendations |-> <<>>]

\* The callback of analyses.map, lines 106-129.  The spread of the parsed
\* value comes last, and the spread of null adds nothing.
Decode(item) ==
    LET base == [id |-> item.id, url |-> item.url, timestamp |-> item.timestamp]
        parsed == Parse(item.analysisData)
    IN IF parsed # <<>>
       THEN IF parsed[1] = Null THEN base ELSE parsed[1] @@ base
       ELSE base @@ [c \in Categories |-> EmptyCategory(item[ScoreColumn[c]])]

Undecodable(item) == Parse(item.analysisData) = <<>>

Decodable(item) == ~Undecodable(item)

\* Mutant of ParsedHistory: the items that fail to parse are left out.
ParsedHistoryDecodable(analyses) ==
    [i \in 1..Len(SelectSeq(analyses, Decodable)) |->
        Decode(SelectSeq(analyses, Decodable)[i])]

\* analyses.map of lines 106-129.
ParsedHistory(analyses) == [i \in 1..Len(analyses) |-> Decode(analyses[i])]

\* console.error of line 116, once for each item that fails to parse.
ParseErrors(analyses) ==
    [i \in 1..Len(SelectSeq(analyses, Undecodable)) |->
        [message |-> "Failed to parse analysis data:", error |-> Thrown("JSON.parse")]]

\* console.error of line 133.
ListError == [message |-> "Failed to load history:", error |-> Thrown("list")]

\* ---------------------------------------------------------------- rendering
\* Values of arithmetic on what may be undefined: a number, or NaN.
Number(n) == [number |-> n]
NaN == [nan |-> TRUE]

\* Mutant of MathRound: the quotient is truncated.
MathRoundDown(n, d) == n \div d

\* Math.round(n / d) for d > 0: the nearest integer, a half going upwards.
MathRound(n, d) == (2 * n + d) \div (2 * d)

\* item.performance.score + item.seo.score + item.accessibility.score +
\* item.design.score + item.ux.score, for an item all of whose scores exist.
ScoreSum(item) ==
    item.performance.score + item.seo.score + item.accessibility.score
        + item.design.score + item.ux.score

\* Reading x.score of an absent category x throws.
ReadThrows(item) == \E c \in Categories : c \notin DOMAIN item

\* Some x.score is undefined, which makes the sum NaN.
SumIsNaN(item) == \E c \in Categories : "score" \notin DOMAIN item[c]

\* The overall score of a row of the history panel (line 876).
RowOverall(item) ==
    IF ReadThrows(item) THEN TypeError
    ELSE IF SumIsNaN(item) THEN NaN
    ELSE Number(MathRound(ScoreSum(item), 5))

\* The overall score written by exportReport (line 385).
ExportOverall(report) ==
    IF ReadThrows(report) THEN TypeError
    ELSE IF SumIsNaN(report) THEN NaN
    ELSE Number(MathRound(ScoreSum(report), 5))

\* Total Analyses (line 899).
TotalAnalyses(h) == Len(h)

RECURSIVE SumOfSums(_)
SumOfSums(h) == IF h = <<>> THEN 0 ELSE ScoreSum(Head(h)) + SumOfSums(Tail(h))

\* Average Score (lines 905-912): the per-entry means are added up unrounded,
\* and the total is divided by the number of entries and rounded once.
AverageScore(h) ==
    IF Len(h) > 0
    THEN IF \E i \in 1..Len(h) : ReadThrows(h[i]) THEN TypeError
         ELSE IF \E i \in 1..Len(h) : SumIsNaN(h[i]) THEN NaN
         ELSE Number(MathRound(SumOfSums(h), 5 * Len(h)))
    ELSE Number(0)

\* Best Category (line 919).
BestCategory(h) == IF Len(h) > 0 THEN "Design" ELSE "N/A"

\* ------------------------------------------------------------ exportReport
\* new Date(t).toISOString()
ToISOString(t) == [iso |-> t]

\* The object literal of lines 376-387.
ReportData(report) ==
    [url |-> report.url,
     timestamp |-> ToISOString(report.timestamp),
     scores |-> [performance |-> Get(report.performance, "score"),
                 seo |-> Get(report.seo, "score"),
                 accessibility |-> Get(report.accessibility, "score"),
                 design |-> Get(report.design, "score"),
                 ux |-> Get(report.ux, "score"),
                 overall |-> ExportOverall(report)],
     analysis |-> report]

\* The file of lines 389-397: its name carries the date of the ISO string.
ReportFile(report) ==
    [name |-> [prefix |-> "website-analysis-",
               date |-> ToISOString(report.timestamp),
               suffix |-> ".json"],
     content |-> ReportData(report)]

ToastExported == "Report exported successfully!"

\* ------------------------------------------------------------------- state
IdleRun ==
    [pc |-> "idle", calls |-> {}, done |-> {}, user |-> Null,
     validUrl |-> <<>>, report |-> Null, row |-> Null]

Init ==
    /\ user = Null
    /\ loading = TRUE
    /\ url = <<>>
    /\ analyzing = FALSE
    /\ progress = 0
    /\ currentStep = StepNone
    /\ result = Null
    /\ history = <<>>
    /\ runs = [r \in RunIds |-> IdleRun]
    /\ pending = [u \in Users |-> 0]
    /\ store = <<>>
    /\ now = 0
    /\ toasts = <<>>
    /\ console = <<>>
    /\ download = <<>>

\* The page with the controls is rendered (lines 403, 414).
SignedIn == ~loading /\ user # Null

\* The input and the button are enabled (lines 488-494).
ControlsEnabled == SignedIn /\ ~analyzing

Active == {r \in RunIds : runs[r].pc # "idle"}

\* The slot a new invocation takes.
FreeSlot == CHOOSE r \in RunIds : runs[r].pc = "idle" /\ \A q \in 1..(r - 1) : runs[q].pc # "idle"

\* The run as it is once `returned` has answered and `next` has been called and
\* is awaited.
Awaiting(run, returned, next) ==
    [run EXCEPT !.pc = next,
                !.calls = (@ \ {returned}) \cup {next},
                !.done = @ \cup {returned}]

\* catch and finally, lines 346-353.
Catch(error) ==
    /\ console' = <<[message |-> "Analysis failed:", error |-> error]>>
    /\ toasts' = <<ToastFailed>>
    /\ download' = <<>>

\* Mutant of Finally: the step label is not reset.
FinallyKeepsStep ==
    /\ analyzing' = FALSE
    /\ progress' = 0
    /\ UNCHANGED currentStep

\* Mutant of Finally: analyzing is not reset.
FinallyKeepsAnalyzing ==
    /\ UNCHANGED analyzing
    /\ progress' = 0
    /\ currentStep' = StepNone

\* Mutant of Finally: the progress is not reset.
FinallyKeepsProgress ==
    /\ analyzing' = FALSE
    /\ UNCHANGED progress
    /\ currentStep' = StepNone

Finally ==
    /\ analyzing' = FALSE
    /\ progress' = 0
    /\ currentStep' = StepNone

Fail(r, error) ==
    /\ runs' = [runs EXCEPT ![r] = IdleRun]
    /\ Catch(error)
    /\ Finally

\* --------------------------------------------------------------- the clock
Tick ==
    /\ now < MaxClock
    /\ now' = now + 1
    /\ toasts' = <<>>
    /\ download' = <<>>
    /\ console' = <<>>
    /\ UNCHANGED <<user, loading, url, analyzing, progress, currentStep, result,
                   history, runs, pending, store>>

\* --------------------------------------------------------- auth and effects
\* onAuthStateChanged (lines 139-142) and the effect of lines 146-150, which
\* calls loadHistory when user has changed to a signed-in user.
AuthStateChanged(u, isLoading) ==
    /\ <<u, isLoading>> # <<user, loading>>
    /\ user' = u
    /\ loading' = isLoading
    /\ IF u # user /\ u # Null
       THEN /\ pending[u.id] < MaxPending
            /\ pending' = [pending EXCEPT ![u.id] = @ + 1]
       ELSE UNCHANGED pending
    /\ toasts' = <<>>
    /\ download' = <<>>
    /\ console' = <<>>
    /\ UNCHANGED <<url, analyzing, progress, currentStep, result, history, runs,
                   store, now>>

\* The continuation of loadHistory after list has answered (lines 106-131).
HistoryLoaded(id) ==
    /\ pending[id] > 0
    /\ pending' = [pending EXCEPT ![id] = @ - 1]
    /\ \E analyses \in Listings([id |-> id]) :
          /\ history' = ParsedHistory(analyses)
          /\ console' = ParseErrors(analyses)
    /\ toasts' = <<>>
    /\ download' = <<>>
    /\ UNCHANGED <<user, loading, url, analyzing, progress, currentStep, result,
                   runs, store, now>>

\* list has thrown (lines 132-135).
HistoryFailed(id) ==
    /\ pending[id] > 0
    /\ pending' = [pending EXCEPT ![id] = @ - 1]
    /\ toasts' = <<ToastHistory>>
    /\ download' = <<>>
    /\ console' = <<ListError>>
    /\ UNCHANGED <<user, loading, url, analyzing, progress, currentStep, result,
                   history, runs, store, now>>

\* ------------------------------------------------------------ the controls
\* onChange of the input (line 487); the input is disabled while analyzing.
SetUrl(text) ==
    /\ ControlsEnabled
    /\ text # url
    /\ url' = text
    /\ toasts' = <<>>
    /\ download' = <<>>
    /\ console' = <<>>
    /\ UNCHANGED <<user, loading, analyzing, progress, currentStep, result,
                   history, runs, pending, store, now>>

\* loadHistoryItem (lines 368-371), onClick of a row of the history panel.
LoadHistoryItem(i) ==
    /\ SignedIn
    /\ i \in 1..Len(history)
    /\ result' = history[i]
    /\ url' = history[i].url
    /\ toasts' = <<>>
    /\ download' = <<>>
    /\ console' = <<>>
    /\ UNCHANGED <<user, loading, analyzing, progress, currentStep, history,
                   runs, pending, store, now>>

\* exportReport (lines 373-401), onClick of the export button of the result
\* view (lines 524, 600).  A result without one of the categories makes the
\* object literal throw, and the handler ends there.
ExportReport ==
    /\ SignedIn
    /\ result # Null
    /\ IF ReadThrows(result)
       THEN /\ download' = <<>>
            /\ toasts' = <<>>
            /\ console' = <<[message |-> "Uncaught", error |-> TypeError]>>
       ELSE /\ download' = <<ReportFile(result)>>
            /\ toasts' = <<ToastExported>>
            /\ console' = <<>>
    /\ UNCHANGED <<user, loading, url, analyzing, progress, currentStep, result,
                   history, runs, pending, store, now>>

\* ----------------------------------------------------------- analyzeWebsite
\* Mutant of MayInvoke: the controls stay enabled while analyzing.
MayInvokeWhileAnalyzing == SignedIn

\* onClick of the button and Enter in the input (lines 488, 493-494).
MayInvoke == ControlsEnabled

\* Mutant of FirstAwait: scrape and screenshot are called together.
FirstAwaitFanOut(u, validUrl) ==
    [pc |-> "scrape", calls |-> {"scrape", "screenshot"}, done |-> {},
     user |-> u, validUrl |-> validUrl, report |-> Null, row |-> Null]

\* The invocation at its first await: scrape(validUrl) is called (line 179).
FirstAwait(u, validUrl) ==
    [pc |-> "scrape", calls |-> {"scrape"}, done |-> {},
     user |-> u, validUrl |-> validUrl, report |-> Null, row |-> Null]

\* Mutant of AnalyzeWebsite: the result of before is kept.
AnalyzeWebsiteKeepsResult ==
    /\ MayInvoke
    /\ Active # RunIds
    /\ IF Rejects(url)
       THEN /\ toasts' = <<ToastInvalid>>
            /\ download' = <<>>
            /\ console' = <<>>
            /\ UNCHANGED <<analyzing, progress, currentStep, result, runs>>
       ELSE /\ runs' = [runs EXCEPT ![FreeSlot] = FirstAwait(user, ValidUrlOf(url))]
            /\ analyzing' = TRUE
            /\ UNCHANGED result
            /\ currentStep' = StepScrape
            /\ progress' = 20
            /\ toasts' = <<>>
            /\ download' = <<>>
            /\ console' = <<>>
    /\ UNCHANGED <<user, loading, url, history, pending, store, now>>

\* Lines 152-179: validation, the reset, and the call of scrape.
AnalyzeWebsite ==
    /\ MayInvoke
    /\ Active # RunIds
    /\ IF Rejects(url)
       THEN /\ toasts' = <<ToastInvalid>>
            /\ download' = <<>>
            /\ console' = <<>>
            /\ UNCHANGED <<analyzing, progress, currentStep, result, runs>>
       ELSE /\ runs' = [runs EXCEPT ![FreeSlot] = FirstAwait(user, ValidUrlOf(url))]
            /\ analyzing' = TRUE
            /\ result' = Null
            /\ currentStep' = StepScrape
            /\ progress' = 20
            /\ toasts' = <<>>
            /\ download' = <<>>
            /\ console' = <<>>
    /\ UNCHANGED <<user, loading, url, history, pending, store, now>>

\* scrape has answered (lines 179-189).
ScrapeOk(r) ==
    /\ runs[r].pc = "scrape"
    /\ runs' = [runs EXCEPT ![r] = Awaiting(@, "scrape", "screenshot")]
    /\ currentStep' = StepScreenshot
    /\ progress' = 40
    /\ toasts' = <<>>
    /\ download' = <<>>
    /\ console' = <<>>
    /\ UNCHANGED <<user, loading, url, analyzing, result, history, pending, store, now>>

\* scrape has thrown.
ScrapeFailed(r) ==
    /\ runs[r].pc = "scrape"
    /\ Fail(r, Thrown("scrape"))
    /\ UNCHANGED <<user, loading, url, result, history, pending, store, now>>

\* Mutant of ScreenshotOk: the progress goes back to that of the first stage.
ScreenshotOkProgressBack(r) ==
    /\ runs[r].pc = "screenshot"
    /\ runs' = [runs EXCEPT ![r] = Awaiting(@, "screenshot", "generateObject")]
    /\ currentStep' = StepGenerate
    /\ progress' = 20
    /\ toasts' = <<>>
    /\ download' = <<>>
    /\ console' = <<>>
    /\ UNCHANGED <<user, loading, url, analyzing, result, history, pending, store, now>>

\* screenshot has answered (lines 185-218).
ScreenshotOk(r) ==
    /\ runs[r].pc = "screenshot"
    /\ runs' = [runs EXCEPT ![r] = Awaiting(@, "screenshot", "generateObject")]
    /\ currentStep' = StepGenerate
    /\ progress' = 60
    /\ toasts' = <<>>
    /\ download' = <<>>
    /\ console' = <<>>
    /\ UNCHANGED <<user, loading, url, analyzing, result, history, pending, store, now>>

\* Mutant of ScreenshotFailed: the error is swallowed and the run goes on.
ScreenshotFailedSwallowed(r) ==
    /\ runs[r].pc = "screenshot"
    /\ runs' = [runs EXCEPT ![r].pc = "generateObject",
                            ![r].calls = {"generateObject"}]
    /\ currentStep' = StepGenerate
    /\ progress' = 60
    /\ toasts' = <<>>
    /\ download' = <<>>
    /\ console' = <<>>
    /\ UNCHANGED <<user, loading, url, analyzing, result, history, pending, store, now>>

\* screenshot has thrown.
ScreenshotFailed(r) ==
    /\ runs[r].pc = "screenshot"
    /\ Fail(r, Thrown("screenshot"))
    /\ UNCHANGED <<user, loading, url, result, history, pending, store, now>>

\* generateObject has answered with `analysis` (lines 218-335): the report is
\* assembled and create is called, unless evaluating its argument throws.
GenerateOk(r, analysis) ==
    /\ runs[r].pc = "generateObject"
    /\ LET report == Assemble(analysis, runs[r].validUrl, now)
       IN IF ArgumentThrows(report)
          THEN Fail(r, TypeError)
          ELSE /\ runs' = [runs EXCEPT ![r] =
                              [Awaiting(@, "generateObject", "create") EXCEPT
                                  !.report = report,
                                  !.row = Row(report, runs[r].user, now)]]
               /\ currentStep' = StepSave
               /\ progress' = 80
               /\ toasts' = <<>>
               /\ download' = <<>>
               /\ console' = <<>>
               /\ UNCHANGED analyzing
    /\ UNCHANGED <<user, loading, url, result, history, pending, store, now>>

\* generateObject has thrown.
GenerateFailed(r) ==
    /\ runs[r].pc = "generateObject"
    /\ Fail(r, Thrown("generateObject"))
    /\ UNCHANGED <<user, loading, url, result, history, pending, store, now>>

\* The rows created since the page was loaded.
SessionRows == {i \in 1..Len(store) : store[i].createdAt >= 0}

\* Mutant of CreateOk: an item selected meanwhile stays as the result.
CreateOkKeepsSelected(r) ==
    /\ runs[r].pc = "create"
    /\ Cardinality(SessionRows) < MaxStore
    /\ store' = Append(store, runs[r].row)
    /\ progress' = 100
    /\ currentStep' = StepComplete
    /\ result' = IF result = Null THEN runs[r].report ELSE result
    /\ runs' = [runs EXCEPT ![r] = Awaiting(@, "create", "list")]
    /\ toasts' = <<>>
    /\ download' = <<>>
    /\ console' = <<>>
    /\ UNCHANGED <<user, loading, url, analyzing, history, pending, now>>

\* create has answered (lines 323-342): the row is in the table, the report is
\* exposed, and loadHistory calls list.
CreateOk(r) ==
    /\ runs[r].pc = "create"
    /\ Cardinality(SessionRows) < MaxStore
    /\ store' = Append(store, runs[r].row)
    /\ progress' = 100
    /\ currentStep' = StepComplete
    /\ result' = runs[r].report
    /\ runs' = [runs EXCEPT ![r] = Awaiting(@, "create", "list")]
    /\ toasts' = <<>>
    /\ download' = <<>>
    /\ console' = <<>>
    /\ UNCHANGED <<user, loading, url, analyzing, history, pending, now>>

\* Mutant of CreateFailed: the report was exposed before create was awaited.
CreateFailedExposed(r) ==
    /\ runs[r].pc = "create"
    /\ Fail(r, Thrown("create"))
    /\ result' = runs[r].report
    /\ UNCHANGED <<user, loading, url, history, pending, store, now>>

\* create has thrown.
CreateFailed(r) ==
    /\ runs[r].pc = "create"
    /\ Fail(r, Thrown("create"))
    /\ UNCHANGED <<user, loading, url, result, history, pending, store, now>>

\* list of the refresh has answered (lines 106-131, 344, 349-353).
RefreshOk(r) ==
    /\ runs[r].pc = "list"
    /\ \E analyses \in Listings(runs[r].user) :
          /\ history' = ParsedHistory(analyses)
          /\ console' = ParseErrors(analyses)
    /\ toasts' = <<ToastCompleted>>
    /\ download' = <<>>
    /\ Finally
    /\ runs' = [runs EXCEPT ![r] = IdleRun]
    /\ UNCHANGED <<user, loading, url, result, pending, store, now>>

\* Mutant of RefreshFailed: the error of list reaches the catch of the run.
RefreshFailedFailsRun(r) ==
    /\ runs[r].pc = "list"
    /\ Fail(r, Thrown("list"))
    /\ UNCHANGED <<user, loading, url, result, history, pending, store, now>>

\* list of the refresh has thrown (lines 132-135, 344, 349-353).
RefreshFailed(r) ==
    /\ runs[r].pc = "list"
    /\ toasts' = <<ToastHistory, ToastCompleted>>
    /\ download' = <<>>
    /\ console' = <<ListError>>
    /\ Finally
    /\ runs' = [runs EXCEPT ![r] = IdleRun]
    /\ UNCHANGED <<user, loading, url, result, history, pending, store, now>>

\* --------------------------------------------------------------------- spec
AuthStates == {<<u, l>> : u \in {Null} \cup {[id |-> x] : x \in Users}, l \in BOOLEAN}

\* The next-state relation for an environment in which the user types the
\* strings of `inputs` and generateObject answers with the objects of `payloads`.
Next(inputs, payloads) ==
    \/ Tick
    \/ \E a \in AuthStates : AuthStateChanged(a[1], a[2])
    \/ \E id \in Users : HistoryLoaded(id)
    \/ \E id \in Users : HistoryFailed(id)
    \/ \E text \in inputs : SetUrl(text)
    \/ \E i \in 1..ListLimit : LoadHistoryItem(i)
    \/ ExportReport
    \/ AnalyzeWebsite
    \/ \E r \in RunIds : ScrapeOk(r)
    \/ \E r \in RunIds : ScrapeFailed(r)
    \/ \E r \in RunIds : ScreenshotOk(r)
    \/ \E r \in RunIds : ScreenshotFailed(r)
    \/ \E r \in RunIds, analysis \in payloads : GenerateOk(r, analysis)
    \/ \E r \in RunIds : GenerateFailed(r)
    \/ \E r \in RunIds : CreateOk(r)
    \/ \E r \in RunIds : CreateFailed(r)
    \/ \E r \in RunIds : RefreshOk(r)
    \/ \E r \in RunIds : RefreshFailed(r)

\* Every payload, for the strings of at most one token.
Spec == Init /\ [][Next(Strings(1), Payloads)]_vars

\* Every string of at most MaxUrlLen tokens, for the conforming payload.
SpecUrl == Init /\ [][Next(Inputs, {Conforming})]_vars

\* ------------------------------------------------- calls that may not answer
\* Every call that is awaited answers or throws in the end, and the
\* continuation that awaits it then runs: the calls of a run (lines 179, 185,
\* 218, 323, 342) and the list of loadHistory (line 99).
Responds(payloads) ==
    /\ \A r \in RunIds :
          /\ WF_vars(ScrapeOk(r) \/ ScrapeFailed(r))
          /\ WF_vars(ScreenshotOk(r) \/ ScreenshotFailed(r))
          /\ WF_vars((\E analysis \in payloads : GenerateOk(r, analysis)) \/ GenerateFailed(r))
          /\ WF_vars(CreateOk(r) \/ CreateFailed(r))
          /\ WF_vars(RefreshOk(r) \/ RefreshFailed(r))
    /\ \A id \in Users : WF_vars(HistoryLoaded(id) \/ HistoryFailed(id))

\* The strings typed while liveness is checked.
LiveInputs == Strings(1)

\* Every call answers or throws.
SpecLive == Init /\ [][Next(LiveInputs, {Conforming})]_vars /\ Responds({Conforming})

\* The call that run r awaits never settles: the await (lines 179, 185, 218,
\* 323, 342) has no timer beside it, so the run stays where it is.
Hang(r) ==
    /\ runs[r].pc \notin {"idle", "hung"}
    /\ runs' = [runs EXCEPT ![r].pc = "hung"]
    /\ toasts' = <<>>
    /\ download' = <<>>
    /\ console' = <<>>
    /\ UNCHANGED <<user, loading, url, analyzing, progress, currentStep, result,
                   history, pending, store, now>>

NextHang ==
    \/ Next(LiveInputs, {Conforming})
    \/ \E r \in RunIds : Hang(r)

\* Every call answers or throws unless it hangs.
SpecHang == Init /\ [][NextHang]_vars /\ Responds({Conforming})

\* ------------------------------------------------------ more than one user
\* The accounts that sign in on one page, one after the other.
Accounts == {"u1", "u2"}

AuthStatesOf(ids) == {<<u, l>> : u \in {Null} \cup {[id |-> x] : x \in ids}, l \in BOOLEAN}

InitAccounts ==
    /\ user = Null
    /\ loading = TRUE
    /\ url = <<>>
    /\ analyzing = FALSE
    /\ progress = 0
    /\ currentStep = StepNone
    /\ result = Null
    /\ history = <<>>
    /\ runs = [r \in RunIds |-> IdleRun]
    /\ pending = [u \in Accounts |-> 0]
    /\ store = <<>>
    /\ now = 0
    /\ toasts = <<>>
    /\ console = <<>>
    /\ download = <<>>

\* The page for the one input <<HOST>> and the conforming payload, with the
\* auth state changing among the accounts.
NextAccounts ==
    \/ \E a \in AuthStatesOf(Accounts) : AuthStateChanged(a[1], a[2])
    \/ \E id \in Accounts : HistoryLoaded(id)
    \/ \E id \in Accounts : HistoryFailed(id)
    \/ SetUrl(<<HOST>>)
    \/ \E i \in 1..ListLimit : LoadHistoryItem(i)
    \/ ExportReport
    \/ AnalyzeWebsite
    \/ \E r \in RunIds : ScrapeOk(r)
    \/ \E r \in RunIds : ScrapeFailed(r)
    \/ \E r \in RunIds : ScreenshotOk(r)
    \/ \E r \in RunIds : ScreenshotFailed(r)
    \/ \E r \in RunIds : GenerateOk(r, Conforming)
    \/ \E r \in RunIds : GenerateFailed(r)
    \/ \E r \in RunIds : CreateOk(r)
    \/ \E r \in RunIds : CreateFailed(r)
    \/ \E r \in RunIds : RefreshOk(r)
    \/ \E r \in RunIds : RefreshFailed(r)

SpecAccounts == InitAccounts /\ [][NextAccounts]_vars

\* ------------------------------------------------- a table with rows in it
\* The table as a signed-in user finds it: rows written by create of earlier
\* sessions, and rows whose analysisData is not what create writes today.
Scores(p, s, a, d, x) ==
    [performance |-> p, seo |-> s, accessibility |-> a, design |-> d, ux |-> x]

SampleScores ==
    {Scores(80, 60, 90, 70, 50), Scores(0, 0, 0, 0, 0), Scores(40, 40, 40, 40, 40),
     Scores(60, 60, 60, 60, 60), Scores(80, 80, 80, 80, 80), Scores(1, 1, 1, 0, 0)}

SampleUrl == <<HTTPS, HOST>>

\* The report that a run assembles at time t from a payload with scores v.
SampleReport(v, t) ==
    Assemble([c \in Categories |->
                 [score |-> v[c], detail |-> <<1>>, recommendations |-> <<"r">>]],
             SampleUrl, t)

\* analysisData that JSON.parse rejects.
CorruptBlob == [wellFormed |-> FALSE, text |-> <<>>]

\* analysisData that parses but is not a whole report: null, {}, and a report
\* without its ux section.
PartialBlobs(report) == {Stringify(Null), Stringify(<<>>), Stringify(Drop(report, "ux"))}

\* The rows that may have been created at time t for user u.
StoredRows(u, t) ==
    LET written == {Row(SampleReport(v, t), u, t) : v \in SampleScores}
        legacy == Row(SampleReport(Scores(80, 60, 90, 70, 50), t), u, t)
    IN written
       \cup {[legacy EXCEPT !.analysisData = b] :
                b \in {CorruptBlob} \cup PartialBlobs(SampleReport(Scores(80, 60, 90, 70, 50), t))}

\* Rows are created before the page is loaded, one after the other.
CreatedAt(i) == i - MaxRows - 1

SampleStores(u) ==
    UNION {{st \in [1..n -> UNION {StoredRows(u, CreatedAt(i)) : i \in 1..n}] :
               \A i \in 1..n : st[i] \in StoredRows(u, CreatedAt(i))} : n \in 0..MaxRows}

\* The user has signed in and the effect of lines 146-150 has called
\* loadHistory, which awaits list.
InitHistory ==
    /\ \E u \in Users :
          /\ user = [id |-> u]
          /\ pending = [x \in Users |-> IF x = u THEN 1 ELSE 0]
          /\ store \in SampleStores([id |-> u])
    /\ loading = FALSE
    /\ url = <<>>
    /\ analyzing = FALSE
    /\ progress = 0
    /\ currentStep = StepNone
    /\ result = Null
    /\ history = <<>>
    /\ runs = [r \in RunIds |-> IdleRun]
    /\ now = 0
    /\ toasts = <<>>
    /\ console = <<>>
    /\ download = <<>>

\* The history panel and the export, without new runs.
NextHistory ==
    \/ \E a \in AuthStates : AuthStateChanged(a[1], a[2])
    \/ \E id \in Users : HistoryLoaded(id)
    \/ \E id \in Users : HistoryFailed(id)
    \/ \E i \in 1..ListLimit : LoadHistoryItem(i)
    \/ ExportReport

SpecHistory == InitHistory /\ [][NextHistory]_vars

\* ------------------------------------------- runs beside a loaded history
\* The row of an earlier session, for another URL than the inputs give.
SeedUrl == <<HTTP, HOST>>

SeedRow(u) ==
    Row(Assemble(Conforming, SeedUrl, CreatedAt(MaxRows)), u, CreatedAt(MaxRows))

\* The user has signed in, the table has the row of an earlier session, and
\* the effect of lines 146-150 has called loadHistory, which awaits list.
InitSelect ==
    /\ \E u \in Users :
          /\ user = [id |-> u]
          /\ pending = [x \in Users |-> IF x = u THEN 1 ELSE 0]
          /\ store = <<SeedRow([id |-> u])>>
    /\ loading = FALSE
    /\ url = <<>>
    /\ analyzing = FALSE
    /\ progress = 0
    /\ currentStep = StepNone
    /\ result = Null
    /\ history = <<>>
    /\ runs = [r \in RunIds |-> IdleRun]
    /\ now = 0
    /\ toasts = <<>>
    /\ console = <<>>
    /\ download = <<>>

SpecSelect == InitSelect /\ [][Next(LiveInputs, {Conforming})]_vars

\* ------------------------------------------------------------------ claims
PipelineCalls == {"scrape", "screenshot", "generateObject", "create"}

\* In this step the invocation in slot r begins.
Begins(r) == runs[r].pc = "idle" /\ runs'[r].pc # "idle"

\* In this step the call c of run r ends without having returned successfully.
CallFailed(r, c) ==
    /\ c \in runs[r].calls
    /\ c \notin runs'[r].calls
    /\ c \notin runs'[r].done

Range(seq) == {seq[i] : i \in 1..Len(seq)}

\* C1: within one run at most one of scrape, screenshot, generateObject and
\* create is outstanding, screenshot is outstanding only after scrape has
\* returned successfully, generateObject only after screenshot has, and
\* create only after generateObject has.
C1_StagesSequential ==
    \A r \in RunIds :
        /\ Cardinality(runs[r].calls \cap PipelineCalls) <= 1
        /\ "screenshot" \in runs[r].calls => "scrape" \in runs[r].done
        /\ "generateObject" \in runs[r].calls => {"scrape", "screenshot"} \subseteq runs[r].done
        /\ "create" \in runs[r].calls =>
              {"scrape", "screenshot", "generateObject"} \subseteq runs[r].done

C1_Witness ==
    \E r \in RunIds :
        runs[r].calls = {"create"} /\ runs[r].done = {"scrape", "screenshot", "generateObject"}

\* C2: a step in which scrape, screenshot, generateObject or create of a run
\* fails ends the run with progress 0, the empty step label and analyzing
\* false, sets no result, stores nothing, and emits the failure notice once and
\* nothing else; no other step emits the failure notice.
C2_FailedOutcome ==
    [][/\ \A r \in RunIds, c \in PipelineCalls :
            CallFailed(r, c) =>
                /\ runs'[r] = IdleRun
                /\ progress' = 0
                /\ currentStep' = StepNone
                /\ analyzing' = FALSE
                /\ result' = result
                /\ store' = store
                /\ toasts' = <<ToastFailed>>
                /\ Len(console') = 1
       /\ ToastFailed \in Range(toasts') =>
            \E r \in RunIds, c \in PipelineCalls : CallFailed(r, c)]_vars

C2_Witness ==
    /\ toasts = <<ToastFailed>>
    /\ progress = 0 /\ currentStep = StepNone /\ ~analyzing
    /\ result = Null /\ store = <<>>

\* C3: a step in which the screenshot call of a run fails ends the run without
\* create having been called by it, leaves the table as it was, and leaves
\* analyzing false and no run active, so that a signed-in user may invoke
\* analyzeWebsite again.
C3_CaptureFailure ==
    [][\A r \in RunIds :
          CallFailed(r, "screenshot") =>
              /\ "create" \notin runs[r].calls \cup runs[r].done
              /\ runs'[r] = IdleRun
              /\ store' = store
              /\ analyzing' = FALSE
              /\ Active' = {}]_vars

C3_Witness ==
    /\ toasts = <<ToastFailed>>
    /\ console = <<[message |-> "Analysis failed:", error |-> Thrown("screenshot")]>>
    /\ SignedIn /\ MayInvoke /\ ~Rejects(url)
    /\ Active = {}
    /\ store = <<>> /\ history = <<>>

\* C4: a result that is not null is the decoding of a row of the table, and
\* progress is 100 only while a run whose create has returned successfully, and
\* whose row is in the table, awaits the refresh of the history.
C4_ExposedOnlyStored ==
    /\ result # Null => \E row \in Range(store) : Decode(row) = result
    /\ progress = 100 =>
          \E r \in RunIds :
              /\ runs[r].pc = "list"
              /\ "create" \in runs[r].done
              /\ runs[r].row \in Range(store)

C4_Witness ==
    /\ progress = 100
    /\ \E r \in RunIds : runs[r].pc = "list" /\ result = runs[r].report

\* C5: at most one invocation of analyzeWebsite is in flight, and it is in
\* flight exactly while analyzing is true, which disables the controls that
\* invoke it.
C5_SingleFlight ==
    /\ Cardinality(Active) <= 1
    /\ analyzing <=> Active # {}
    /\ Active # {} => ~MayInvoke

C5_Witness == SignedIn /\ Active # {} /\ ~Rejects(url)

HasScheme(u) == StartsWith(u, HTTP) \/ StartsWith(u, HTTPS)

\* C6: an invocation of analyzeWebsite whose input is empty or blank, or whose
\* candidate URL does not parse, emits the invalid-URL notice and changes
\* nothing else: no run begins, and analyzing, progress, currentStep, result,
\* history and the table stay as they were.
C6_InvalidUrlRejected ==
    [][(AnalyzeWebsite /\ (Trim(url) = <<>> \/ ~UrlParses(ValidUrlOf(url)))) =>
          /\ toasts' = <<ToastInvalid>>
          /\ UNCHANGED <<user, loading, url, analyzing, progress, currentStep,
                         result, history, runs, pending, store, now>>]_vars

C6_Witness ==
    /\ toasts = <<ToastInvalid>>
    /\ Trim(url) # <<>>
    /\ ~UrlParses(ValidUrlOf(url))
    /\ Active = {} /\ ~analyzing

C8_TrimmedUrlUsed ==
    [][(AnalyzeWebsite /\ url # Trim(url) /\ UrlParses(ValidUrlOf(Trim(url)))) =>
          \E r \in RunIds :
              /\ Begins(r)
              /\ runs'[r].validUrl = ValidUrlOf(Trim(url))]_vars

\* C9: no row passed to create carries a category score outside 0..100, in its
\* score columns or in the report it encodes.
C9_ScoresInRange ==
    \A r \in RunIds :
        runs[r].pc = "create" =>
            \A c \in Categories :
                /\ \A v \in Range(runs[r].row[ScoreColumn[c]]) : v \in 0..100
                /\ \A v \in Range(Get(runs[r].report[c], "score")) : v \in 0..100

\* C10: every report passed to create has all five categories, each with a
\* score and a recommendations list.
C10_ReportAtomic ==
    \A r \in RunIds :
        runs[r].pc = "create" =>
            \A c \in Categories :
                /\ c \in DOMAIN runs[r].report
                /\ {"score", "recommendations"} \subseteq DOMAIN runs[r].report[c]

\* C11: the id carried by a create call that is outstanding differs from the
\* id of every row already created for the same user.
C11_IdsUnique ==
    \A r \in RunIds :
        runs[r].pc = "create" =>
            \A row \in Range(store) :
                row.userId = runs[r].row.userId => row.id # runs[r].row.id

\* The score of category c of entry e, <<>> when e has none.
ScoreOf(e, c) == IF c \in DOMAIN e THEN Get(e[c], "score") ELSE <<>>

\* C12: the entry that loadHistory decodes from the row passed to create has
\* the id, url, timestamp and five category scores of the report the row was
\* written from, and every entry of history has the id, url, timestamp and
\* score columns of a row of the table.
C12_RoundTrip ==
    /\ \A r \in RunIds :
          runs[r].pc \in {"create", "list"} /\ runs[r].row.analysisData.wellFormed =>
              LET e == Decode(runs[r].row)
                  report == runs[r].report
              IN /\ e.id = report.id
                 /\ e.url = report.url
                 /\ e.timestamp = report.timestamp
                 /\ \A c \in Categories : ScoreOf(e, c) = ScoreOf(report, c)
    /\ \A i \in 1..Len(history) :
          \E row \in Range(store) :
              /\ row.analysisData.wellFormed
              /\ history[i].id = row.id
              /\ history[i].url = row.url
              /\ history[i].timestamp = row.timestamp
              /\ \A c \in Categories : ScoreOf(history[i], c) = row[ScoreColumn[c]]

C12_Witness ==
    /\ toasts = <<ToastCompleted>>
    /\ Len(history) = 1
    /\ history[1] = result
    /\ \A c \in Categories : ScoreOf(history[1], c) = <<ConformingScore[c]>>

\* C13: when list has answered, every listed row whose analysisData does not
\* parse and whose five score columns are set has an entry in history, at the
\* row's place, whose five category scores are the row's score columns and
\* whose details and recommendations are empty, and no notice is shown.
C13_FallbackDecode ==
    [][\A id \in Users :
          HistoryLoaded(id) =>
              /\ toasts' = <<>>
              /\ \E analyses \in Listings([id |-> id]) :
                    /\ Len(history') = Len(analyses)
                    /\ \A i \in 1..Len(analyses) :
                          (/\ ~analyses[i].analysisData.wellFormed
                           /\ \A c \in Categories : analyses[i][ScoreColumn[c]] # <<>>) =>
                              /\ history'[i].id = analyses[i].id
                              /\ \A c \in Categories :
                                    /\ c \in DOMAIN history'[i]
                                    /\ <<history'[i][c].score>> = analyses[i][ScoreColumn[c]]
                                    /\ history'[i][c].detail = <<>>
                                    /\ history'[i][c].recommendations = <<>>]_vars

C13_Witness ==
    /\ \E i \in 1..Len(history) :
          /\ \E row \in Range(store) : row.id = history[i].id /\ ~row.analysisData.wellFormed
          /\ ScoreOf(history[i], "performance") = <<80>>
          /\ history[i].ux = [score |-> 50, detail |-> <<>>, recommendations |-> <<>>]
    /\ toasts = <<>>
    /\ Len(console) = 1
    /\ console[1].error = Thrown("JSON.parse")

\* C14: when list has answered, whichever of the listed rows fail to parse,
\* history is set to one entry for each listed row, in the order of the
\* listing, and no notice is shown.
C14_ListingNotAborted ==
    [][\A id \in Users :
          HistoryLoaded(id) =>
              /\ toasts' = <<>>
              /\ \E analyses \in Listings([id |-> id]) :
                    /\ Len(history') = Len(analyses)
                    /\ \A i \in 1..Len(analyses) :
                          /\ history'[i].id = analyses[i].id
                          /\ history'[i].url = analyses[i].url
                          /\ history'[i].timestamp = analyses[i].timestamp]_vars

C14_Witness ==
    /\ Len(history) = MaxRows
    /\ Len(store) = MaxRows
    /\ \A i \in 1..MaxRows : history[i].id = store[MaxRows + 1 - i].id
    /\ ~store[2].analysisData.wellFormed
    /\ store[1].analysisData.wellFormed
    /\ Len(console) = 1
    /\ toasts = <<>>

\* C15: every entry of history has all five categories, each with a score, so
\* that the overall score of each row of the panel and the average score are
\* numbers.
C15_EntriesComplete ==
    /\ \A i \in 1..Len(history) :
          /\ \A c \in Categories : ScoreOf(history[i], c) # <<>>
          /\ RowOverall(history[i]) \notin {TypeError, NaN}
    /\ AverageScore(history) \notin {TypeError, NaN}

\* The five scores of item are those of v.
HasScores(item, v) == \A c \in Categories : ScoreOf(item, c) = <<v[c]>>

\* All five scores of item are integers from 0 to 100.
ScoresInRange(item) ==
    \A c \in Categories : \E k \in 0..100 : ScoreOf(item, c) = <<k>>

\* k is sum/5 rounded to the nearest integer, a half going upwards:
\* k - 1/2 <= sum/5 < k + 1/2.
IsRoundedFifth(k, sum) == 10 * k - 5 <= 2 * sum /\ 2 * sum < 10 * k + 5

IsRoundedMean(k, item) == IsRoundedFifth(k, ScoreSum(item))

\* Math.round of a fifth of every sum of five integers from 0 to 100.
RoundsEverySum == \A sum \in 0..(5 * 100) : IsRoundedFifth(MathRound(sum, 5), sum)

\* C16: Math.round of the mean is the mean rounded half up for every sum of
\* five scores from 0 to 100; for every entry of history with such scores the
\* overall score of its row is the mean of the five scores rounded half up, 70 for
\* (80,60,90,70,50) and 0 for (0,0,0,0,0); the overall score of an exported
\* report is that of the row of the same entry.
C16_OverallScore ==
    /\ RoundsEverySum
    /\ \A i \in 1..Len(history) :
          ScoresInRange(history[i]) =>
              /\ RowOverall(history[i]) \notin {TypeError, NaN}
              /\ IsRoundedMean(RowOverall(history[i]).number, history[i])
              /\ HasScores(history[i], Scores(80, 60, 90, 70, 50)) =>
                    RowOverall(history[i]) = Number(70)
              /\ HasScores(history[i], Scores(0, 0, 0, 0, 0)) =>
                    RowOverall(history[i]) = Number(0)
    /\ \A i \in 1..Len(download) :
          /\ download[i].content.analysis = result
          /\ ScoresInRange(result) =>
                /\ download[i].content.scores.overall = RowOverall(result)
                /\ download[i].content.scores.overall \notin {TypeError, NaN}
                /\ IsRoundedMean(download[i].content.scores.overall.number, result)

C16_Witness ==
    /\ Len(download) = 1
    /\ download[1].content.scores.overall = Number(1)
    /\ \E i \in 1..Len(history) :
          /\ history[i] = result
          /\ HasScores(history[i], Scores(1, 1, 1, 0, 0))
          /\ RowOverall(history[i]) = Number(1)
    /\ \E i \in 1..Len(history) : RowOverall(history[i]) = Number(70)

\* All entries of h have five scores from 0 to 100.
Complete(h) == \A i \in 1..Len(h) : ScoresInRange(h[i])

RECURSIVE SumOfOveralls(_)
SumOfOveralls(h) ==
    IF h = <<>> THEN 0 ELSE RowOverall(Head(h)).number + SumOfOveralls(Tail(h))

\* C17: for a history all of whose entries have five scores from 0 to 100, the
\* count shown is the number of entries, and the average shown is the sum of the
\* overall scores of the rows divided by the number of entries and rounded half
\* up, 0 for the empty history, and 60 for overall scores 40, 60, 80.
C17_Statistics ==
    Complete(history) =>
        /\ TotalAnalyses(history) = Len(history)
        /\ AverageScore(history) =
              IF Len(history) = 0 THEN Number(0)
              ELSE Number(MathRound(SumOfOveralls(history), Len(history)))

\* The sum of the scores of category c over the entries of h.
RECURSIVE CategoryTotal(_, _)
CategoryTotal(h, c) ==
    IF h = <<>> THEN 0 ELSE Head(h)[c].score + CategoryTotal(Tail(h), c)

\* The names of the categories on the score cards (lines 536-584).
CategoryLabel ==
    [performance |-> "Performance", seo |-> "SEO", accessibility |-> "Accessibility",
     design |-> "Design", ux |-> "User Experience"]

\* C18: for a non-empty history all of whose entries have five scores from 0 to
\* 100, the best category shown is a category whose mean score over the entries
\* is not below that of any other category.
C18_BestCategory ==
    (Len(history) > 0 /\ Complete(history)) =>
        \E c \in Categories :
            /\ BestCategory(history) = CategoryLabel[c]
            /\ \A d \in Categories : CategoryTotal(history, d) <= CategoryTotal(history, c)

\* C19: a run that begins from an input that is valid once trimmed has the
\* candidate URL of the trimmed input as its URL; when its create returns, the
\* row added to the table and the result carry that URL and an id that no row
\* of the table had before; when its refresh returns, the first entry of
\* history is the report of the run.
C19_EndToEnd ==
    [][\A r \in RunIds :
          /\ (Begins(r) /\ UrlParses(ValidUrlOf(Trim(url)))) =>
                runs'[r].validUrl = ValidUrlOf(Trim(url))
          /\ (runs[r].pc = "create" /\ runs'[r].pc = "list") =>
                /\ Len(store') = Len(store) + 1
                /\ store'[Len(store')].url = runs[r].validUrl
                /\ result'.url = runs[r].validUrl
                /\ result'.id = store'[Len(store')].id
                /\ \A row \in Range(store) : row.id # result'.id
          /\ (runs[r].pc = "list" /\ runs'[r].pc = "idle" /\ toasts' = <<ToastCompleted>>) =>
                /\ Len(history') > 0
                /\ history'[1] = runs[r].report]_vars

\* C20: a step in which scrape, screenshot, generateObject or create of a run
\* fails leaves no run active, progress 0, no step label and the result as it
\* was, and a signed-in user may invoke analyzeWebsite again; every run that
\* begins, begins from progress 0 and no step label, with a null result, at its
\* first stage with no call done, with the candidate URL of the input of that
\* invocation, whatever ran before.
C20_Retriggerable ==
    [][\A r \in RunIds :
          /\ (\E c \in PipelineCalls : CallFailed(r, c)) =>
                /\ Active' = {}
                /\ ~analyzing'
                /\ progress' = 0
                /\ currentStep' = StepNone
                /\ result' = result
                /\ SignedIn' => MayInvoke'
          /\ Begins(r) =>
                /\ progress = 0
                /\ currentStep = StepNone
                /\ Active = {}
                /\ result' = Null
                /\ runs'[r] = FirstAwait(user, ValidUrlOf(url))
                /\ runs'[r].calls = {"scrape"}
                /\ runs'[r].done = {}
                /\ currentStep' = StepScrape
                /\ progress' = 20]_vars

C20_Witness ==
    /\ toasts = <<ToastFailed>>
    /\ console = <<[message |-> "Analysis failed:", error |-> Thrown("generateObject")]>>
    /\ SignedIn /\ MayInvoke /\ ~Rejects(url)
    /\ Active = {}
    /\ progress = 0 /\ currentStep = StepNone /\ result = Null
    /\ ENABLED AnalyzeWebsite

\* C21: whenever a run is in flight, also one whose awaited call never
\* answers, the run eventually ends: analyzing is false and progress is 0.
C21_StageTimeout == analyzing ~> (~analyzing /\ progress = 0)

Checkpoints == {0, 20, 40, 60, 80, 100}

\* The progress shown while a run awaits the call named by its pc.
CheckpointOf ==
    [scrape |-> 20, screenshot |-> 40, generateObject |-> 60, create |-> 80, list |-> 100]

\* C22: progress is always one of 0, 20, 40, 60, 80, 100; a run begins from
\* progress 0; while a run awaits scrape, screenshot, generateObject, create
\* and the refresh after create, progress is 20, 40, 60, 80 and 100; in no step
\* that leaves the run in flight does progress decrease.
C22_ProgressCheckpoints ==
    [][/\ progress' \in Checkpoints
       /\ \A r \in RunIds :
             /\ Begins(r) => progress = 0
             /\ runs'[r].pc # "idle" =>
                   /\ progress' = CheckpointOf[runs'[r].pc]
                   /\ progress' >= progress]_vars

C22_Witness ==
    /\ progress = 100
    /\ currentStep = StepComplete
    /\ analyzing
    /\ \E r \in RunIds : runs[r].done = PipelineCalls

FallbackOf(row) == Decode([row EXCEPT !.analysisData = CorruptBlob])

\* C24: in every row passed to create the five score columns are the category
\* scores of the report encoded in analysisData, and id, url and timestamp are
\* those of that report; the entry decoded from the blob and the fallback
\* entry built from the columns have the same five scores.
C24_ColumnsMatchBlob ==
    \A r \in RunIds :
        runs[r].pc = "create" =>
            LET row == runs[r].row
                blob == Parse(row.analysisData)
            IN /\ blob # <<>>
               /\ \A c \in Categories : row[ScoreColumn[c]] = ScoreOf(blob[1], c)
               /\ row.id = blob[1].id
               /\ row.url = blob[1].url
               /\ row.timestamp = blob[1].timestamp
               /\ \A c \in Categories :
                     ScoreOf(Decode(row), c) = ScoreOf(FallbackOf(row), c)

\* No run is in flight and the orchestrator is as before a run.
Startable == Active = {} /\ ~analyzing /\ progress = 0 /\ currentStep = StepNone

\* C25: when every call answers or throws, a run in flight eventually ends,
\* and every step that ends a run, with the completion notice or with the
\* failure notice, leaves analyzing false, progress 0 and no step label, so
\* that a signed-in user may invoke analyzeWebsite again.
C25_Terminates ==
    /\ (Active # {}) ~> Startable
    /\ [][\A r \in RunIds :
             (runs[r].pc # "idle" /\ runs'[r].pc = "idle") =>
                 /\ Startable'
                 /\ SignedIn' => MayInvoke'
                 /\ ToastCompleted \in Range(toasts') \/ ToastFailed \in Range(toasts')]_vars

C25_Witness ==
    /\ Startable
    /\ toasts = <<ToastHistory, ToastCompleted>>
    /\ result # Null
    /\ store # <<>>
    /\ SignedIn /\ MayInvoke

\* The entry e was decoded from rows of account id only.
OwnedBy(e, id) == \A row \in Range(store) : row.id = e.id => row.userId = id

\* C26: while an account is the user, every entry of history and the result,
\* if there is one, come from rows of that account.
C26_OwnRecordsShown ==
    user # Null =>
        /\ \A i \in 1..Len(history) : OwnedBy(history[i], user.id)
        /\ result # Null => OwnedBy(result, user.id)

\* C27: the report and the row passed to create carry the id generated from
\* the instant of creation, the URL validated at the start of the run and that
\* instant as timestamp, whatever keys the payload of generateObject has, and
\* so does the result exposed after create.
C27_OrchestratorFields ==
    /\ \A r \in RunIds :
          runs[r].pc = "create" =>
              LET t == runs[r].row.createdAt
              IN /\ runs[r].report.id = MakeId(t)
                 /\ runs[r].report.url = runs[r].validUrl
                 /\ runs[r].report.timestamp = t
                 /\ runs[r].row.id = MakeId(t)
                 /\ runs[r].row.url = runs[r].validUrl
                 /\ runs[r].row.timestamp = t
    /\ \A r \in RunIds :
          runs[r].pc = "list" =>
              /\ result.id = MakeId(runs[r].row.createdAt)
              /\ result.url = runs[r].validUrl
              /\ result.timestamp = runs[r].row.createdAt

\* C28: a step in which the list of the refresh of a run throws ends the run
\* with the completion notice and without the failure notice, leaves the row
\* of the run in the table and the result as it was, the report of the run
\* unless an item was selected meanwhile, and leaves history as it was.
C28_RefreshFailureTolerated ==
    [][\A r \in RunIds :
          RefreshFailed(r) =>
              /\ runs[r].pc = "list"
              /\ runs'[r] = IdleRun
              /\ result' = result
              /\ result' # Null
              /\ result' \in {runs[r].report} \cup Range(history)
              /\ runs[r].row \in Range(store')
              /\ history' = history
              /\ ToastFailed \notin Range(toasts')
              /\ ToastCompleted \in Range(toasts')
              /\ ~analyzing']_vars

C28_Witness ==
    /\ toasts = <<ToastHistory, ToastCompleted>>
    /\ console = <<ListError>>
    /\ \E row \in Range(store) : Decode(row) = result
    /\ history = <<>>
    /\ Active = {}

\* C29: a step that selects a history item changes result and url and nothing
\* of a run; no step changes the URL or the user of a run in flight; the row
\* passed to create has the URL of the run; the step in which create returns
\* sets result to the report of the run, whatever item was selected before;
\* a step in which a call of the run fails leaves result as it was, which is
\* null or the decoding of a row of the table, never a report that was not
\* stored.
C29_SelectionLeavesRun ==
    [][/\ \A i \in 1..ListLimit :
             LoadHistoryItem(i) =>
                 /\ result' = history[i]
                 /\ UNCHANGED <<runs, analyzing, progress, currentStep, store, history>>
       /\ \A r \in RunIds :
             /\ (runs[r].pc # "idle" /\ runs'[r].pc # "idle") =>
                   /\ runs'[r].validUrl = runs[r].validUrl
                   /\ runs'[r].user = runs[r].user
             /\ runs'[r].pc = "create" =>
                   /\ runs'[r].row.url = runs'[r].validUrl
                   /\ runs'[r].report.url = runs'[r].validUrl
             /\ (runs[r].pc = "create" /\ runs'[r].pc = "list") =>
                   /\ result' = runs[r].report
                   /\ store'[Len(store')] = runs[r].row
             /\ (\E c \in PipelineCalls : CallFailed(r, c)) =>
                   /\ result' = result
                   /\ result' = Null \/ \E row \in Range(store') : Decode(row) = result']_vars

\* The report of a run begun from the input <<HOST>> is the result although an
\* item with another URL was selected while the run was in flight.
C29_Witness ==
    \E r \in RunIds :
        /\ runs[r].pc = "list"
        /\ runs[r].validUrl = <<HTTPS, HOST>>
        /\ url = SeedUrl
        /\ result = runs[r].report
        /\ Len(history) = 1
        /\ history[1].url = SeedUrl

====
